---- MODULE Spec2Model ----
(***************************************************************************)
(* Universal File Converter: the batch orchestration layer of src/main.py. *)
(*                                                                         *)
(* FileConverterApp (the UI thread) owns the input file list, the output   *)
(* directory, the format selector and the buttons.  start_conversion       *)
(* hands the list OBJECT to a ConversionWorker (a QThread) which iterates  *)
(* it, calls converter.convert per file and emits progress_update and      *)
(* conversion_complete.  The signals cross threads, so Qt queues them and  *)
(* the UI thread handles them later, in order.                             *)
(*                                                                         *)
(* Python lists are objects: the worker's self.input_files and the app's   *)
(* self.input_files are the same object until clear_files rebinds the      *)
(* app's attribute to a new list.  The model keeps, for each reference,    *)
(* the contents seen through it, and for each worker whether its list is   *)
(* the object the app's attribute is bound to: an append through the app's *)
(* reference shows through every reference to the same object.             *)
(*                                                                         *)
(* converter.convert is an opaque collaborator here: a call returns True,  *)
(* returns False or raises.  The options dictionary and the output         *)
(* directory are passed through to it unread by the worker; the            *)
(* QMessageBox dialogs are recorded as the last box shown.                 *)
(***************************************************************************)
EXTENDS Integers, Sequences, FiniteSets, TLC

\* ------------------------------------------------------------------ bounds
\* How many distinct paths the user can pick or drop.
NumFiles == 2
\* How many ConversionWorker threads the model lets exist at once.
MaxWorkers == 2
\* How many paths one file dialog or one drop delivers.
MaxPaths == 2
\* How many signals can wait for the UI thread; an emit waits for room.
MaxQueue == 1
\* The largest batch the percentage is computed for on its own.
MaxTotal == 50

\* ------------------------------------------------------------------ values
Path(d, n) == [dir |-> d, name |-> n]

\* Paths the user can pick; the first NumFiles are in play.
FilePool ==
    << Path("/in", "a.png"), Path("/in", "b.unknownext"),
       Path("/tmp", "a.png"), Path("/in", "c.docx"), Path("/in", "d.mp3") >>

Files == { FilePool[k] : k \in 1..NumFiles }

\* A dropped URL that is a directory, not a file.
DroppedDir == Path("/", "in")

\* os.path.isfile, for the paths of the model
isfile(p) == p \in Files

\* os.path.basename
basename(p) == p.name

NoFile == Path("", "")

\* The directory a QFileDialog.getExistingDirectory can return ("" = cancelled).
Directories == { "/out" }

\* str(e) of an exception escaping converter.convert
ExceptionTexts == { "boom" }

Msg(f, s, k, n) == [fmt |-> f, s |-> s, k |-> k, n |-> n]

Ready == Msg("Ready", "", 0, 0)

\* ------------------------------------------------ int((i / total) * 100)
\* main.py:42 and :56 compute the percentage in Python floats (IEEE 754
\* binary64): the quotient is rounded to 53 significant bits, the product by
\* 100 is rounded again, and int() truncates.  The operators below carry
\* out exactly that on bit sequences (most significant bit first).
MantissaBits == 53

Zeros(k) == [j \in 1..k |-> 0]

RECURSIVE StripZeros(_)
StripZeros(a) ==
    IF a = <<>> \/ a[1] = 1 THEN a ELSE StripZeros(Tail(a))

RECURSIVE BitsToInt(_)
BitsToInt(a) ==
    IF a = <<>> THEN 0
    ELSE 2 * BitsToInt(SubSeq(a, 1, Len(a) - 1)) + a[Len(a)]

\* Round-to-nearest, ties-to-even, of a bit sequence with a leading 1 and at
\* least MantissaBits + 1 bits; sticky says a non-zero tail follows the
\* sequence.  carry = 1 when the rounding overflowed into a new leading bit.
RoundNearestEven(bits, sticky) ==
    LET keep  == SubSeq(bits, 1, MantissaBits)
        rest  == SubSeq(bits, MantissaBits + 1, Len(bits))
        guard == rest[1]
        lower == sticky \/ \E j \in 2..Len(rest) : rest[j] = 1
        up    == guard = 1 /\ (lower \/ keep[MantissaBits] = 1)
        zeros == { j \in 1..MantissaBits : keep[j] = 0 }
        z     == CHOOSE j \in zeros : \A k \in zeros : k <= j
    IN  IF ~up THEN [m |-> keep, carry |-> 0]
        ELSE IF zeros = {}
        THEN [m |-> << 1 >> \o Zeros(MantissaBits - 1), carry |-> 1]
        ELSE [m |-> [j \in 1..MantissaBits |->
                        IF j < z THEN keep[j] ELSE IF j = z THEN 1 ELSE 0],
              carry |-> 0]

\* 2^k mod d
RECURSIVE PowMod(_, _)
PowMod(k, d) ==
    IF k = 0 THEN 1 % d
    ELSE IF k % 2 = 0 THEN LET h == PowMod(k \div 2, d) IN (h * h) % d
    ELSE (2 * PowMod(k - 1, d)) % d

\* The binary digits of r / d (0 < r < d) after the point: the count of
\* leading zeros, the first MantissaBits + 1 significant digits, and the
\* remainder left.  After k digits the remainder is r * 2^k mod d.
DivDigits(r, d) ==
    LET Rem(k)   == (r * PowMod(k, d)) % d
        Digit(k) == IF 2 * Rem(k - 1) >= d THEN 1 ELSE 0
        lead     == (CHOOSE k \in 1..32 :
                        Digit(k) = 1 /\ \A j \in 1..(k - 1) : Digit(j) = 0) - 1
    IN  [bits |-> [j \in 1..(MantissaBits + 1) |-> Digit(lead + j)],
         lead |-> lead,
         rem  |-> Rem(lead + MantissaBits + 1)]

\* The float i / t for 0 < i < 256 * t, as mantissa m and the exponent e of
\* its last bit: the value is m * 2^e.
FloatDiv(i, t) ==
    LET q == DivDigits(i, t * 256)
        r == RoundNearestEven(q.bits, q.rem # 0)
    IN  [m |-> r.m, e |-> 8 - q.lead - MantissaBits + r.carry]

\* The w binary digits of v < 2^w
IntToBits(v, w) == [j \in 1..w |-> (v \div 2^(w - j)) % 2]

\* The float x * 100.  The exact product is formed on the mantissa cut into
\* limbs of 14 bits (the top one has 11), lowest first, and then rounded.
FloatMul100(x) ==
    LET v1 == BitsToInt(SubSeq(x.m, 40, 53)) * 100
        v2 == BitsToInt(SubSeq(x.m, 26, 39)) * 100 + v1 \div 16384
        v3 == BitsToInt(SubSeq(x.m, 12, 25)) * 100 + v2 \div 16384
        v4 == BitsToInt(SubSeq(x.m, 1, 11)) * 100 + v3 \div 16384
        p  == StripZeros(IntToBits(v4, 18)) \o IntToBits(v3 % 16384, 14)
                \o IntToBits(v2 % 16384, 14) \o IntToBits(v1 % 16384, 14)
        d  == Len(p) - MantissaBits
        r  == RoundNearestEven(p, FALSE)
    IN  [m |-> r.m, e |-> x.e + d + r.carry]

\* int(x) of a non-negative float below 2^MantissaBits
FloatTrunc(x) ==
    IF MantissaBits + x.e <= 0 THEN 0
    ELSE BitsToInt(SubSeq(x.m, 1, MantissaBits + x.e))

\* int((i / total_files) * 100)
Percent(i, total_files) ==
    IF i = 0 THEN 0 ELSE FloatTrunc(FloatMul100(FloatDiv(i, total_files)))

\* The percentages the worker can need, computed once.
PercentTable ==
    [i \in 0..(NumFiles + 1), t \in 1..(NumFiles + 1) |-> Percent(i, t)]

\* ------------------------------------------------------------ the formats
\* str.lower() and str.upper() on the strings of the model: the pairs
\* << lower, upper >> of the strings that have cased characters.
CasePairs ==
    { <<"png", "PNG">>, <<"jpg", "JPG">>, <<"jpeg", "JPEG">>, <<"gif", "GIF">>,
      <<"webp", "WEBP">>, <<"tiff", "TIFF">>, <<"bmp", "BMP">>, <<"svg", "SVG">>,
      <<"mp4", "MP4">>, <<"avi", "AVI">>, <<"mkv", "MKV">>, <<"mov", "MOV">>,
      <<"webm", "WEBM">>, <<"pdf", "PDF">>, <<"docx", "DOCX">>, <<"txt", "TXT">>,
      <<"rtf", "RTF">>, <<"odt", "ODT">>, <<"xlsx", "XLSX">>, <<"csv", "CSV">>,
      <<"pptx", "PPTX">>, <<"html", "HTML">>, <<"mp3", "MP3">>, <<"wav", "WAV">>,
      <<"flac", "FLAC">>, <<"aac", "AAC">>, <<"ogg", "OGG">>, <<"m4a", "M4A">>,
      <<"wma", "WMA">>, <<"xyz", "XYZ">> }

\* Strings with cased characters of both kinds: << the string, its lower() >>
MixedCase ==
    { <<"-- Image Formats --", "-- image formats --">>,
      <<"-- Video Formats --", "-- video formats --">>,
      <<"-- Document Formats --", "-- document formats --">>,
      <<"-- Audio Formats --", "-- audio formats --">> }

lower(s) ==
    IF \E c \in CasePairs : c[2] = s
    THEN (CHOOSE c \in CasePairs : c[2] = s)[1]
    ELSE IF \E c \in MixedCase : c[1] = s
    THEN (CHOOSE c \in MixedCase : c[1] = s)[2]
    ELSE s

upper(s) ==
    IF \E c \in CasePairs : c[1] = s
    THEN (CHOOSE c \in CasePairs : c[1] = s)[2]
    ELSE s

\* SUPPORTED_OUTPUT_FORMATS of the four converters
ImageOutputs == { "png", "jpg", "jpeg", "gif", "webp", "tiff", "bmp", "svg" }
VideoOutputs == { "mp4", "avi", "mkv", "mov", "webm", "gif" }
DocumentOutputs ==
    { "pdf", "docx", "txt", "rtf", "odt", "xlsx", "csv", "pptx", "html" }
AudioOutputs == { "mp3", "wav", "flac", "aac", "ogg" }

Converters == { "image", "video", "document", "audio" }

SUPPORTED_OUTPUT_FORMATS(c) ==
    CASE c = "image"    -> ImageOutputs
      [] c = "video"    -> VideoOutputs
      [] c = "document" -> DocumentOutputs
      [] c = "audio"    -> AudioOutputs
      [] OTHER          -> {}

\* The items of format_combo, in the order create_conversion_options_section
\* adds them (index 0 first).
FormatItems ==
    << "-- Image Formats --" >>
    \o [k \in 1..7 |-> upper(<<"png", "jpg", "gif", "webp", "tiff", "bmp", "svg">>[k])]
    \o << "-- Video Formats --" >>
    \o [k \in 1..6 |-> upper(<<"mp4", "avi", "mkv", "mov", "webm", "gif">>[k])]
    \o << "-- Document Formats --" >>
    \o [k \in 1..9 |-> upper(<<"pdf", "docx", "txt", "rtf", "odt", "xlsx", "csv",
                                "pptx", "html">>[k])]
    \o << "-- Audio Formats --" >>
    \o [k \in 1..5 |-> upper(<<"mp3", "wav", "flac", "aac", "ogg">>[k])]

\* itemText(index), index from 0
itemText(index) == FormatItems[index + 1]

\* The items setEnabled(False) was called on
DisabledItems == { 0, 8, 15, 25 }

ItemIndexes == 0..(Len(FormatItems) - 1)

\* Every format string of the model, in either case
FormatStrings == UNION { { c[1], c[2] } : c \in CasePairs \cup MixedCase }

\* The four lists get_converter_for_format tests, in the order it tests them
DispatchLists ==
    << { "png", "jpg", "jpeg", "gif", "webp", "tiff", "bmp", "svg" },
       { "mp4", "avi", "mkv", "mov", "webm" },
       { "pdf", "docx", "txt", "rtf", "odt", "xlsx", "csv", "pptx", "html" },
       { "mp3", "wav", "flac", "aac", "ogg" } >>

\* A dispatcher that falls back to the image converter
get_converter_or_image(output_format) ==
    IF output_format \in DispatchLists[2] THEN "video"
    ELSE IF output_format \in DispatchLists[3] THEN "document"
    ELSE IF output_format \in DispatchLists[4] THEN "audio"
    ELSE "image"

\* A dispatcher whose audio list has a format AudioConverter only reads
get_converter_with_m4a(output_format) ==
    IF output_format \in DispatchLists[1] THEN "image"
    ELSE IF output_format \in DispatchLists[2] THEN "video"
    ELSE IF output_format \in DispatchLists[3] THEN "document"
    ELSE IF output_format \in DispatchLists[4] \cup { "m4a" } THEN "audio"
    ELSE "None"

\* FileConverterApp.get_converter_for_format; "None" is Python's None
get_converter_for_format(output_format) ==
    IF output_format \in DispatchLists[1] THEN "image"
    ELSE IF output_format \in DispatchLists[2] THEN "video"
    ELSE IF output_format \in DispatchLists[3] THEN "document"
    ELSE IF output_format \in DispatchLists[4] THEN "audio"
    ELSE "None"

\* ---------------------------------------------------------------- state
Workers == 1..MaxWorkers

VARIABLES
    input_files,       \* FileConverterApp.input_files: the list's contents
    output_directory,  \* FileConverterApp.output_directory
    format_combo,      \* format_combo.currentIndex()
    controls_enabled,  \* isEnabled() of add_files_btn, clear_files_btn,
                       \* browse_btn, the two combos and the two check boxes
    convert_btn,       \* convert_btn.isEnabled()
    progress_bar,      \* progress_bar.value()
    status_label,      \* status_label.text()
    message_box,       \* the last QMessageBox shown
    workers,           \* the ConversionWorker threads, oldest first
    events,            \* the signals queued for the UI thread, oldest first
    attempted,         \* per worker: the paths convert was called with, in order
    trues,             \* per worker: how many calls of convert returned True
    at_click,          \* per worker: the list as it was when Convert was clicked
    call               \* a function of the program applied on its own:
                       \* its arguments and its result

vars ==
    << input_files, output_directory, format_combo, controls_enabled,
       convert_btn, progress_bar, status_label, message_box, workers, events,
       attempted, trues, at_click, call >>

app == << input_files, output_directory, format_combo >>
ui == << controls_enabled, convert_btn >>
display == << progress_bar, status_label >>
history == << attempted, trues, at_click >>

\* A slot with no thread in it
NoWorker ==
    [pc |-> "idle", converter |-> "None", input_files |-> << >>,
     same_list |-> FALSE, output_format |-> "", total_files |-> 0,
     success_count |-> 0, i |-> 0, file_path |-> NoFile, e |-> ""]

\* ConversionWorker.__init__ and QThread.start(): the thread exists, run has
\* not begun.  self.input_files is the caller's list object, not a copy.
ConversionWorker(converter, files, output_format) ==
    [pc |-> "start", converter |-> converter, input_files |-> files,
     same_list |-> TRUE, output_format |-> output_format, total_files |-> 0,
     success_count |-> 0, i |-> 0, file_path |-> NoFile, e |-> ""]

\* No function is being applied on its own
NoCall == [fn |-> "none", i |-> 0, total_files |-> 0, result |-> 0]

Alive(w) == workers[w].pc # "idle"

\* run has not returned
Running(w) == workers[w].pc \in {"start", "loop", "convert", "except"}

Init ==
    /\ input_files = << >>
    /\ output_directory = ""
    /\ format_combo = 1
    /\ controls_enabled = TRUE
    /\ convert_btn = TRUE
    /\ progress_bar = 0
    /\ status_label = Ready
    /\ message_box = "none"
    /\ workers = [w \in Workers |-> NoWorker]
    /\ events = << >>
    /\ attempted = [w \in Workers |-> << >>]
    /\ trues = [w \in Workers |-> 0]
    /\ at_click = [w \in Workers |-> << >>]
    /\ call = NoCall

\* ------------------------------------------------------------ UI handlers
\* The loop of add_files_to_list: each path not yet in the list is appended.
RECURSIVE AppendNew(_, _)
AppendNew(list, file_paths) ==
    IF file_paths = << >> THEN list
    ELSE LET file_path == Head(file_paths)
         IN  IF \E k \in 1..Len(list) : list[k] = file_path
             THEN AppendNew(list, Tail(file_paths))
             ELSE AppendNew(Append(list, file_path), Tail(file_paths))

\* update_convert_button_state, on the values the handler leaves
update_convert_button_state(list, directory) ==
    Len(list) > 0 /\ directory # ""

\* The workers after the app's list object has become list: the append is to
\* the object, so every worker holding that object sees it.
Appended(ws, list) ==
    [w \in Workers |->
        IF ws[w].pc # "idle" /\ ws[w].same_list
        THEN [ws[w] EXCEPT !.input_files = list]
        ELSE ws[w]]

\* add_files_to_list
add_files_to_list(file_paths) ==
    LET list == AppendNew(input_files, file_paths)
    IN  /\ input_files' = list
        /\ workers' = Appended(workers, list)
        /\ convert_btn' = update_convert_button_state(list, output_directory)
        /\ UNCHANGED << call, output_directory, format_combo, controls_enabled, display,
                        message_box, events, history >>

\* What a file dialog or a drop can deliver
PathSeqs(S) == UNION { [1..n -> S] : n \in 1..MaxPaths }

\* add_files: the Add Files button; an empty selection is a cancelled dialog
AddFiles ==
    /\ controls_enabled
    /\ \E file_paths \in PathSeqs(Files) \cup { << >> } :
          IF file_paths # << >>
          THEN add_files_to_list(file_paths)
          ELSE UNCHANGED vars

RECURSIVE LocalFiles(_)
LocalFiles(urls) ==
    IF urls = << >> THEN << >>
    ELSE IF isfile(Head(urls)) THEN << Head(urls) >> \o LocalFiles(Tail(urls))
    ELSE LocalFiles(Tail(urls))

\* dropEvent: the window accepts drops whatever set_ui_enabled did
DropEvent ==
    \E urls \in PathSeqs(Files \cup {DroppedDir}) :
        LET file_paths == LocalFiles(urls)
        IN  IF file_paths # << >>
            THEN add_files_to_list(file_paths)
            ELSE UNCHANGED vars

\* The workers after the app's attribute has been bound to another list
Rebound(ws) ==
    [w \in Workers |-> [ws[w] EXCEPT !.same_list = FALSE]]

\* clear_files: the Clear button; the attribute is bound to a new list
ClearFiles ==
    /\ controls_enabled
    /\ input_files' = << >>
    /\ workers' = Rebound(workers)
    /\ convert_btn' = update_convert_button_state(<< >>, output_directory)
    /\ UNCHANGED << call, output_directory, format_combo, controls_enabled, display,
                    message_box, events, history >>

\* browse_output_directory: the Browse button; "" is a cancelled dialog
BrowseOutputDirectory ==
    /\ controls_enabled
    /\ \E directory \in Directories \cup { "" } :
          IF directory # ""
          THEN /\ output_directory' = directory
               /\ convert_btn' = update_convert_button_state(input_files, directory)
               /\ UNCHANGED << call, input_files, format_combo, controls_enabled,
                               display, message_box, workers, events, history >>
          ELSE UNCHANGED vars

\* The user picks an item of format_combo; a disabled item cannot be picked
SelectFormat ==
    /\ controls_enabled
    /\ \E index \in ItemIndexes \ DisabledItems : format_combo' = index
    /\ UNCHANGED << call, input_files, output_directory, ui, display, message_box,
                    workers, events, history >>

\* set_ui_enabled
set_ui_enabled(enabled) ==
    /\ controls_enabled' = enabled
    /\ convert_btn' = enabled

\* The first free slot
FreeSlot == CHOOSE w \in Workers : ~Alive(w) /\ \A v \in Workers : ~Alive(v) => w <= v

\* start_conversion: the Convert button
StartConversion ==
    /\ convert_btn
    /\ LET output_format == lower(itemText(format_combo))
           converter     == get_converter_for_format(output_format)
       IN  IF input_files = << >>
           THEN /\ message_box' = "No input files selected"
                /\ UNCHANGED << call, app, ui, display, workers, events, history >>
           ELSE IF output_directory = ""
           THEN /\ message_box' = "No output directory selected"
                /\ UNCHANGED << call, app, ui, display, workers, events, history >>
           ELSE IF converter = "None"
           THEN /\ message_box' = "No converter available"
                /\ UNCHANGED << call, app, ui, display, workers, events, history >>
           ELSE /\ \E w \in Workers : ~Alive(w)
                /\ workers' = [workers EXCEPT ![FreeSlot] =
                      ConversionWorker(converter, input_files, output_format)]
                /\ at_click' = [at_click EXCEPT ![FreeSlot] = input_files]
                /\ set_ui_enabled(FALSE)
                /\ UNCHANGED << call, app, display, message_box, events, attempted,
                                trues >>

\* ------------------------------------------------------ ConversionWorker.run
Signal(sig, w, value, success, message) ==
    [sig |-> sig, worker |-> w, value |-> value, success |-> success,
     message |-> message]

\* QThread.start() has returned and the thread begins run: lines 36-37
RunBegin(w) ==
    /\ workers[w].pc = "start"
    /\ workers' = [workers EXCEPT ![w].pc = "loop",
                                  ![w].total_files = Len(workers[w].input_files),
                                  ![w].success_count = 0,
                                  ![w].i = 0]
    /\ UNCHANGED << call, app, ui, display, message_box, events, history >>

\* The progress signal of line 42
Progress(w, i, total_files, file_path) ==
    Signal("progress_update", w, PercentTable[i, total_files], FALSE,
           Msg("Converting", basename(file_path), 0, 0))

\* The list iterator yields the next file: the progress signal is emitted and
\* converter.convert is called (lines 39-50).
NextFile(w) ==
    LET me        == workers[w]
        file_path == me.input_files[me.i + 1]
    IN  /\ me.pc = "loop"
        /\ me.i < Len(me.input_files)
        /\ Len(events) < MaxQueue
        /\ workers' = [workers EXCEPT ![w].pc = "convert",
                                      ![w].file_path = file_path]
        /\ events' = Append(events, Progress(w, me.i, me.total_files, file_path))
        /\ attempted' = [attempted EXCEPT ![w] = Append(@, file_path)]
        /\ UNCHANGED << call, app, ui, display, message_box, trues, at_click >>

\* success_count after a call that returned success (lines 52-53)
Counted(success_count, success) ==
    IF success THEN success_count + 1 ELSE success_count

\* A loop that a False return ends
ConvertReturnsStops(w) ==
    /\ workers[w].pc = "convert"
    /\ \E success \in BOOLEAN :
          /\ workers' = [workers EXCEPT
                ![w].pc = "loop",
                ![w].i = IF success THEN @ + 1 ELSE Len(workers[w].input_files),
                ![w].success_count = Counted(@, success)]
          /\ trues' = [trues EXCEPT ![w] = IF success THEN @ + 1 ELSE @]
    /\ UNCHANGED << call, app, ui, display, message_box, events, attempted, at_click >>

\* converter.convert returns a boolean (lines 45-53) and the loop goes on
ConvertReturns(w) ==
    /\ workers[w].pc = "convert"
    /\ \E success \in BOOLEAN :
          /\ workers' = [workers EXCEPT
                ![w].pc = "loop",
                ![w].i = @ + 1,
                ![w].success_count = Counted(@, success)]
          /\ trues' = [trues EXCEPT ![w] = IF success THEN @ + 1 ELSE @]
    /\ UNCHANGED << call, app, ui, display, message_box, events, attempted, at_click >>

\* converter.convert raises an Exception: control is in the except clause
\* with the exception bound to e (line 55)
ConvertRaises(w) ==
    /\ workers[w].pc = "convert"
    /\ \E text \in ExceptionTexts :
          workers' = [workers EXCEPT ![w].pc = "except", ![w].e = text]
    /\ UNCHANGED << call, app, ui, display, message_box, events, history >>

\* An error signal without the exception's text
ErrorProgressNoText(w, i, total_files, e) ==
    Signal("progress_update", w, PercentTable[i, total_files], FALSE,
           Msg("Error", "", 0, 0))

\* The progress signal of line 56
ErrorProgress(w, i, total_files, e) ==
    Signal("progress_update", w, PercentTable[i, total_files], FALSE,
           Msg("Error", e, 0, 0))

\* An exception that ends the thread: run returns without a summary
ExceptClauseEnds(w) ==
    /\ workers[w].pc = "except"
    /\ workers' = [workers EXCEPT ![w].pc = "done", ![w].e = ""]
    /\ UNCHANGED << call, app, ui, display, message_box, events, history >>

\* The except clause emits the error and the loop goes on (line 56)
ExceptClause(w) ==
    LET me == workers[w]
    IN  /\ me.pc = "except"
        /\ Len(events) < MaxQueue
        /\ events' = Append(events, ErrorProgress(w, me.i, me.total_files, me.e))
        /\ workers' = [workers EXCEPT ![w].pc = "loop", ![w].i = @ + 1,
                                      ![w].e = ""]
        /\ UNCHANGED << call, app, ui, display, message_box, history >>

\* A summary whose flag is set by any success
SummaryAnySucceeded(w, success_count, total_files) ==
    Signal("conversion_complete", w, 0, success_count > 0,
           Msg("Converted of files successfully", "", success_count, total_files))

\* The final summary (lines 58-60)
Summary(w, success_count, total_files) ==
    Signal("conversion_complete", w, 0, success_count = total_files,
           Msg("Converted of files successfully", "", success_count, total_files))

\* The list iterator is exhausted: the summary is emitted and run returns
\* (lines 58-60).
Finish(w) ==
    LET me == workers[w]
    IN  /\ me.pc = "loop"
        /\ me.i >= Len(me.input_files)
        /\ Len(events) < MaxQueue
        /\ workers' = [workers EXCEPT ![w].pc = "done"]
        /\ events' = Append(events, Summary(w, me.success_count, me.total_files))
        /\ UNCHANGED << call, app, ui, display, message_box, history >>

\* --------------------------------------------- the queued signals' slots
\* QProgressBar.setValue ignores a value outside its range 0..100
setValue(current, value) == IF value \in 0..100 THEN value ELSE current

\* update_progress
UpdateProgress ==
    /\ events # << >>
    /\ Head(events).sig = "progress_update"
    /\ progress_bar' = setValue(progress_bar, Head(events).value)
    /\ status_label' = Head(events).message
    /\ events' = Tail(events)
    /\ UNCHANGED << call, app, ui, message_box, workers, history >>

\* The slots after the thread in slot w has ended: the younger threads move
\* up, so the threads alive are always the first slots.
Without(f, w, empty) ==
    [v \in Workers |->
        IF v < w THEN f[v] ELSE IF v + 1 \in Workers THEN f[v + 1] ELSE empty]

\* The queued signals, their senders renumbered likewise
Renumbered(q, w) ==
    [k \in 1..Len(q) |->
        IF q[k].worker > w THEN [q[k] EXCEPT !.worker = @ - 1] ELSE q[k]]

\* conversion_finished; the thread that sent the signal has ended and leaves
\* the model.
ConversionFinished ==
    /\ events # << >>
    /\ Head(events).sig = "conversion_complete"
    /\ LET w == Head(events).worker
       IN  /\ workers' = Without(workers, w, NoWorker)
           /\ attempted' = Without(attempted, w, << >>)
           /\ trues' = Without(trues, w, 0)
           /\ at_click' = Without(at_click, w, << >>)
           /\ events' = Renumbered(Tail(events), w)
    /\ progress_bar' = setValue(progress_bar, 100)
    /\ status_label' = Head(events).message
    /\ set_ui_enabled(TRUE)
    /\ message_box' = IF Head(events).success
                      THEN "Conversion Complete"
                      ELSE "Conversion Completed with Errors"
    /\ UNCHANGED << call, app >>

\* ------------------------------------------------------------------ spec
WorkerStep(w) ==
    \/ RunBegin(w)
    \/ NextFile(w)
    \/ ConvertReturns(w)
    \/ ConvertRaises(w)
    \/ ExceptClause(w)
    \/ Finish(w)

\* The window with its buttons, drag and drop, the worker threads and the
\* queued signals.  The worker hands output_format to the converter unread,
\* so the selector stays on its initial item here; SpecDispatch moves it.
Next ==
    \/ AddFiles
    \/ DropEvent
    \/ ClearFiles
    \/ BrowseOutputDirectory
    \/ StartConversion
    \/ UpdateProgress
    \/ ConversionFinished
    \/ \E w \in Workers : RunBegin(w)
    \/ \E w \in Workers : NextFile(w)
    \/ \E w \in Workers : ConvertReturns(w)
    \/ \E w \in Workers : ConvertRaises(w)
    \/ \E w \in Workers : ExceptClause(w)
    \/ \E w \in Workers : Finish(w)

Spec == Init /\ [][Next]_vars

\* The completion signal of the worker in slot w is delivered
Retire(w) == ConversionFinished /\ Head(events).worker = w

\* The operating system schedules every thread, and the UI thread's event
\* loop handles every queued signal.  A real emit never waits; here it waits
\* for room in the queue, which the event loop makes again and again, so a
\* worker's step is taken if it is enabled again and again.
Fairness ==
    /\ \A w \in Workers : SF_vars(WorkerStep(w))
    /\ WF_vars(UpdateProgress)
    /\ WF_vars(ConversionFinished)

FairSpec == Spec /\ Fairness

\* A separator becomes the current item.  The user cannot pick a disabled
\* item and the program itself only ever calls setCurrentIndex(1) (line 179):
\* this step stands for a caller of QComboBox.setCurrentIndex from outside
\* the window's own code, the one way currentText() can be a string that is
\* in none of the dispatcher's lists.
SetCurrentIndex ==
    /\ \E index \in DisabledItems : format_combo' = index
    /\ UNCHANGED << call, input_files, output_directory, ui, display, message_box,
                    workers, events, history >>

\* The window driven through its buttons and its selector, every item of
\* the selector included, without drag and drop.
NextDispatch ==
    \/ AddFiles
    \/ ClearFiles
    \/ BrowseOutputDirectory
    \/ SelectFormat
    \/ SetCurrentIndex
    \/ StartConversion
    \/ UpdateProgress
    \/ ConversionFinished
    \/ \E w \in Workers : RunBegin(w)
    \/ \E w \in Workers : NextFile(w)
    \/ \E w \in Workers : ConvertReturns(w)
    \/ \E w \in Workers : ConvertRaises(w)
    \/ \E w \in Workers : ExceptClause(w)
    \/ \E w \in Workers : Finish(w)

SpecDispatch == Init /\ [][NextDispatch]_vars

\* ------------------------------------------- the percentage, on its own
\* The percentage of line 42 for the file at position i of a batch of
\* total_files files: the arguments are drawn, then the expression is
\* evaluated.
InitPercent ==
    /\ input_files = << >>
    /\ output_directory = ""
    /\ format_combo = 1
    /\ controls_enabled = TRUE
    /\ convert_btn = TRUE
    /\ progress_bar = 0
    /\ status_label = Ready
    /\ message_box = "none"
    /\ workers = [w \in Workers |-> NoWorker]
    /\ events = << >>
    /\ attempted = [w \in Workers |-> << >>]
    /\ trues = [w \in Workers |-> 0]
    /\ at_click = [w \in Workers |-> << >>]
    /\ \E total_files \in 1..MaxTotal : \E i \in 0..(total_files - 1) :
          call = [fn |-> "percent", i |-> i, total_files |-> total_files,
                  result |-> -1]

EvalPercent ==
    /\ call.fn = "percent"
    /\ call.result = -1
    /\ call' = [call EXCEPT !.result = Percent(call.i, call.total_files)]
    /\ UNCHANGED << app, ui, display, message_box, workers, events, history >>

NextPercent == EvalPercent

SpecPercent == InitPercent /\ [][NextPercent]_vars

\* ================================================================ claims
IsPrefix(s, t) == Len(s) <= Len(t) /\ SubSeq(t, 1, Len(s)) = s

NoDuplicates(s) == \A j, k \in 1..Len(s) : s[j] = s[k] => j = k

\* The positions in the queue of the completion signals worker w has sent
Completions(w) ==
    { k \in 1..Len(events) :
        events[k].sig = "conversion_complete" /\ events[k].worker = w }

\* A step that delivers a queued signal to its slot
Delivery == Len(events') < Len(events)

\* C1: when a run has finished, K calls of convert having returned True among
\* the N files it attempted, its summary says "Converted K of N files
\* successfully".
C1_ConvertedKofN ==
    \A w \in Workers :
        workers[w].pc = "done" =>
            /\ workers[w].success_count = trues[w]
            /\ \E k \in Completions(w) :
                  events[k].message =
                      Msg("Converted of files successfully", "", trues[w],
                          Len(attempted[w]))

\* C2: convert is called once per position of the worker's list, in list
\* order, whatever the earlier calls returned or raised: what has been
\* attempted is always the list up to the loop's position, and when the run
\* has finished every file the list held at the click has been attempted.
C2_EveryFileOnceInOrder ==
    \A w \in Workers :
        Alive(w) =>
            LET me == workers[w]
            IN  /\ IsPrefix(attempted[w], me.input_files)
                /\ NoDuplicates(attempted[w])
                /\ Len(attempted[w]) =
                      me.i + (IF me.pc \in {"convert", "except"} THEN 1 ELSE 0)
                /\ me.pc = "done" => IsPrefix(at_click[w], attempted[w])

\* A run has finished, no call having returned True, and the second file was
\* attempted all the same
C2_Witness ==
    \E w \in Workers :
        /\ workers[w].pc = "done"
        /\ trues[w] = 0
        /\ Len(attempted[w]) >= 2

\* C3: the step that leaves the except clause emits a progress signal whose
\* message carries the exception's text, leaves the success count alone and
\* goes on to the next position of the list.
C3_ExceptionAbsorbed ==
    [][\A w \in Workers :
          (workers[w].pc = "except" /\ workers'[w].pc # "except" /\ ~Delivery)
          => /\ Len(events') = Len(events) + 1
             /\ events'[Len(events')].sig = "progress_update"
             /\ events'[Len(events')].worker = w
             /\ events'[Len(events')].message = Msg("Error", workers[w].e, 0, 0)
             /\ workers[w].e \in ExceptionTexts
             /\ workers'[w].success_count = workers[w].success_count
             /\ trues'[w] = trues[w]
             /\ workers'[w].pc = "loop"
             /\ workers'[w].i = workers[w].i + 1]_vars

\* The first call raised, its error has been shown, and the second file is
\* being converted
C3_Witness ==
    \E w \in Workers :
        /\ workers[w].pc = "convert"
        /\ workers[w].i = 1
        /\ trues[w] = 0
        /\ status_label = Msg("Error", "boom", 0, 0)

\* C4: a worker has sent exactly one completion signal when its run has
\* finished and none before; the signal's flag says whether the number of
\* True returns equals the total it reports; it is sent by the step that finds
\* every file of the list attempted; and once it is sent the worker calls
\* convert no more and emits nothing.
C4_CompletionOnce ==
    /\ [](\A w \in Workers :
            /\ Cardinality(Completions(w)) = (IF workers[w].pc = "done" THEN 1 ELSE 0)
            /\ \A k \in Completions(w) :
                  /\ events[k].success = (trues[w] = events[k].message.n)
                  /\ \A j \in 1..Len(events) : events[j].worker = w => j <= k)
    /\ [][\A w \in Workers :
            /\ (workers[w].pc # "done" /\ workers'[w].pc = "done" /\ ~Delivery)
               => /\ attempted[w] = workers[w].input_files
                  /\ workers[w].pc = "loop"
                  /\ Completions(w)' # {}
            /\ (workers[w].pc = "done" /\ ~Delivery)
               => /\ workers'[w].pc = "done"
                  /\ attempted'[w] = attempted[w]
                  /\ trues'[w] = trues[w]
                  /\ Len(events') > Len(events)
                        => events'[Len(events')].worker # w]_vars

\* A run has finished with some but not all calls successful: the flag of
\* its queued completion signal is False
C4_Witness ==
    \E w \in Workers :
        /\ workers[w].pc = "done"
        /\ trues[w] = 1
        /\ Len(attempted[w]) = 2
        /\ \E k \in Completions(w) : ~events[k].success

\* C5: the percentage computed for position i of a batch of total_files
\* files is floor(i / total_files * 100).
C5_PercentIsFloor ==
    (call.fn = "percent" /\ call.result # -1)
        => call.result = (call.i * 100) \div call.total_files

\* C6: at most one worker's run is in progress at any time.
C6_OneBatchAtATime ==
    Cardinality({ w \in Workers : Running(w) }) <= 1

\* C7: the files a finished run attempted are the list as it was when
\* Convert was clicked.
C7_ListAsClicked ==
    \A w \in Workers :
        workers[w].pc = "done" => attempted[w] = at_click[w]

\* C8: a started batch is never stuck and never dropped: a running worker
\* can take a step, or waits for room in the queue while a signal is being
\* delivered; no step but the delivery of its completion signal removes it
\* or takes back what it attempted; a finished worker's completion signal is
\* queued; its delivery enables the controls and the Convert button; and no
\* worker stays in its slot for ever: each slot is free again and again, or
\* a worker at or before it retires again and again.
C8_BatchCompletes ==
    /\ [](\A w \in Workers :
            /\ Running(w) =>
                  \/ ENABLED WorkerStep(w)
                  \/ /\ Len(events) >= MaxQueue
                     /\ ENABLED (UpdateProgress \/ ConversionFinished)
            /\ workers[w].pc = "done" => Completions(w) # {})
    /\ [][/\ \A w \in Workers :
                (Alive(w) /\ ~Delivery)
                    => /\ Alive(w)'
                       /\ IsPrefix(attempted[w], attempted'[w])
          /\ (events # << >> /\ Head(events).sig = "conversion_complete" /\ Delivery)
                => controls_enabled' /\ convert_btn']_vars
    /\ \A w \in Workers :
          \/ []<>(~Alive(w))
          \/ []<><<\E v \in 1..w : Retire(v)>>_vars

\* A batch whose first call raised has been delivered complete: the controls
\* are enabled again and no worker is left
C8_Witness ==
    /\ message_box = "Conversion Completed with Errors"
    /\ status_label = Msg("Converted of files successfully", "", 1, 2)
    /\ controls_enabled
    /\ convert_btn
    /\ progress_bar = 100
    /\ \A w \in Workers : ~Alive(w)

\* C9: for a format in none of its four lists the dispatcher returns None,
\* and a click on Convert with files, a directory and such a format current
\* shows the error and creates no worker, disables nothing, queues nothing.
C9_NoConverterNoWorker ==
    /\ [](\A f \in FormatStrings :
            f \notin UNION { DispatchLists[k] : k \in 1..4 }
                => get_converter_for_format(f) = "None")
    /\ [][(/\ StartConversion
           /\ input_files # << >>
           /\ output_directory # ""
           /\ lower(itemText(format_combo)) \notin
                 UNION { DispatchLists[k] : k \in 1..4 })
          => /\ message_box' = "No converter available"
             /\ UNCHANGED << workers, controls_enabled, convert_btn, events,
                             input_files >>]_vars

\* Convert was clicked with a separator current: the error is shown, no
\* worker exists and the controls are enabled
C9_Witness ==
    /\ message_box = "No converter available"
    /\ format_combo \in DisabledItems
    /\ input_files # << >>
    /\ output_directory # ""
    /\ controls_enabled
    /\ \A w \in Workers : ~Alive(w)

\* C10: whenever the dispatcher returns a converter for a format, that
\* converter's SUPPORTED_OUTPUT_FORMATS has the format; this covers every item
\* the selector offers and every worker created; and every format in some
\* converter's SUPPORTED_OUTPUT_FORMATS gets a converter.
C10_DispatchConsistent ==
    /\ \A f \in FormatStrings :
          get_converter_for_format(f) # "None"
              => f \in SUPPORTED_OUTPUT_FORMATS(get_converter_for_format(f))
    /\ \A index \in ItemIndexes \ DisabledItems :
          LET f == lower(itemText(index))
          IN  /\ get_converter_for_format(f) # "None"
              /\ f \in SUPPORTED_OUTPUT_FORMATS(get_converter_for_format(f))
    /\ \A c \in Converters : \A f \in SUPPORTED_OUTPUT_FORMATS(c) :
          get_converter_for_format(f) # "None"
    /\ \A w \in Workers :
          Alive(w) =>
              workers[w].output_format \in
                  SUPPORTED_OUTPUT_FORMATS(workers[w].converter)

\* A worker was created for GIF picked among the video formats: it holds the
\* image converter
C10_Witness ==
    \E w \in Workers :
        /\ Alive(w)
        /\ format_combo = 14
        /\ workers[w].output_format = "gif"
        /\ workers[w].converter = "image"

\* C11: the dispatcher returns converter c for format f exactly when f is in
\* c's SUPPORTED_OUTPUT_FORMATS, for every worker created as well.
C11_DispatchIsTheOutputSets ==
    /\ \A f \in FormatStrings : \A c \in Converters :
          (get_converter_for_format(f) = c) <=> (f \in SUPPORTED_OUTPUT_FORMATS(c))
    /\ \A w \in Workers : \A c \in Converters :
          Alive(w) =>
              ((workers[w].converter = c)
                  <=> (workers[w].output_format \in SUPPORTED_OUTPUT_FORMATS(c)))

\* ============================================================ path strings
\* A path or a format argument is the sequence of its pieces: every "/" and
\* every "." is a piece of its own and the other pieces hold neither, so the
\* string functions below act on pieces as Python's act on characters.
RECURSIVE Str(_)
Str(s) == IF s = << >> THEN "" ELSE Head(s) \o Str(Tail(s))

\* str.lower()
str_lower(s) == [k \in 1..Len(s) |-> lower(s[k])]

\* str.replace(".", ""): every dot goes
RECURSIVE replace_dots(_)
replace_dots(s) ==
    IF s = << >> THEN << >>
    ELSE IF Head(s) = "." THEN replace_dots(Tail(s))
    ELSE << Head(s) >> \o replace_dots(Tail(s))

\* str.rfind(c), from 1; 0 when c is not in s
rfind(s, c) ==
    IF \E k \in 1..Len(s) : s[k] = c
    THEN CHOOSE k \in 1..Len(s) : s[k] = c /\ \A j \in (k + 1)..Len(s) : s[j] # c
    ELSE 0

\* os.path.basename
os_path_basename(p) == SubSeq(p, rfind(p, "/") + 1, Len(p))

\* os.path.splitext: << root, ext >>; the extension starts at the last dot of
\* the file name unless only dots come before it
os_path_splitext(p) ==
    LET sepIndex == rfind(p, "/")
        dotIndex == rfind(p, ".")
    IN  IF dotIndex > sepIndex
           /\ \E k \in (sepIndex + 1)..(dotIndex - 1) : p[k] # "."
        THEN << SubSeq(p, 1, dotIndex - 1), SubSeq(p, dotIndex, Len(p)) >>
        ELSE << p, << >> >>

\* os.path.join(a, b) of posixpath
os_path_join(a, b) ==
    IF b # << >> /\ b[1] = "/" THEN b
    ELSE IF a = << >> \/ a[Len(a)] = "/" THEN a \o b
    ELSE a \o << "/" >> \o b

\* utils.file_utils.get_output_path
get_output_path(input_path, output_format, output_dir) ==
    LET base_name       == os_path_splitext(os_path_basename(input_path))[1]
        fmt             == replace_dots(str_lower(output_format))
        output_filename == base_name \o << "." >> \o fmt
    IN  os_path_join(output_dir, output_filename)

\* Input paths: /in/report.v2.docx, /in/a.png, /in/b.PNG, /in/.hidden,
\* /in/noext, /in.d/file, archive.tar.gz
InputPaths ==
    { << "/", "in", "/", "report", ".", "v2", ".", "docx" >>,
      << "/", "in", "/", "a", ".", "png" >>,
      << "/", "in", "/", "b", ".", "PNG" >>,
      << "/", "in", "/", ".", "hidden" >>,
      << "/", "in", "/", "noext" >>,
      << "/", "in", ".", "d", "/", "file" >>,
      << "archive", ".", "tar", ".", "gz" >> }

\* Format arguments: pdf, PDF, .pdf, .PDF, png, tar.gz, xyz
FormatArgs ==
    { << "pdf" >>, << "PDF" >>, << ".", "pdf" >>, << ".", "PDF" >>, << "png" >>,
      << "tar", ".", "gz" >>, << "xyz" >> }

\* Output directories: /out, /out/, the empty string
OutputDirs == { << "/", "out" >>, << "/", "out", "/" >>, << >> }

\* The application's variables at rest, beside a function applied on its own
AtRest ==
    /\ input_files = << >>
    /\ output_directory = ""
    /\ format_combo = 1
    /\ controls_enabled = TRUE
    /\ convert_btn = TRUE
    /\ progress_bar = 0
    /\ status_label = Ready
    /\ message_box = "none"
    /\ workers = [w \in Workers |-> NoWorker]
    /\ events = << >>
    /\ attempted = [w \in Workers |-> << >>]
    /\ trues = [w \in Workers |-> 0]
    /\ at_click = [w \in Workers |-> << >>]

InitOutputPath ==
    /\ AtRest
    /\ \E input_path \in InputPaths, output_format \in FormatArgs,
          output_dir \in OutputDirs :
          call = [fn |-> "get_output_path", input_path |-> input_path,
                  output_format |-> output_format, output_dir |-> output_dir,
                  returned |-> FALSE, result |-> << >>]

EvalOutputPath ==
    /\ call.fn = "get_output_path"
    /\ ~call.returned
    /\ call' = [call EXCEPT
          !.returned = TRUE,
          !.result = get_output_path(call.input_path, call.output_format,
                                     call.output_dir)]
    /\ UNCHANGED << app, ui, display, message_box, workers, events, history >>

NextOutputPath == EvalOutputPath

SpecOutputPath == InitOutputPath /\ [][NextOutputPath]_vars

\* A leading dot stripped, the rest unchanged
strip_leading_dot(s) == IF s # << >> /\ s[1] = "." THEN Tail(s) ELSE s

\* C17: get_output_path returns output_dir joined with "<base>.<fmt>", base
\* the file name without its last extension and fmt the format lower-cased,
\* a leading dot stripped, otherwise unchanged.
C17_OutputPath ==
    (call.fn = "get_output_path" /\ call.returned) =>
        Str(call.result) =
            Str(os_path_join(call.output_dir,
                    os_path_splitext(os_path_basename(call.input_path))[1]
                    \o << "." >>
                    \o strip_leading_dot(str_lower(call.output_format))))

\* ============================================ normalisation of the format
\* The comparison of a converter's output validation (lines 51-52 of
\* ImageConverter.convert; the four converters' are alike)
output_supported(c, output_format) ==
    Str(replace_dots(str_lower(output_format))) \in SUPPORTED_OUTPUT_FORMATS(c)

\* start_conversion's way to a converter: lower() at line 302, then the
\* dispatcher at line 315
dispatched(currentText) == get_converter_for_format(Str(str_lower(currentText)))

\* The format names, lower-cased
FormatNames == { c[1] : c \in CasePairs }

\* The ways a format can be written
Spellings == { "plain", "upper", "dot" }

Spelled(f, how) ==
    CASE how = "plain" -> << f >>
      [] how = "upper" -> << upper(f) >>
      [] how = "dot"   -> << ".", f >>

\* The input path the output path is built for: /in/a.png
SomeInput == << "/", "in", "/", "a", ".", "png" >>

InitNormalise ==
    /\ AtRest
    /\ \E f \in FormatNames, how \in Spellings :
          call = [fn |-> "normalise", f |-> f, output_format |-> Spelled(f, how),
                  returned |-> FALSE, converter |-> "None", supported |-> {},
                  output_path |-> << >>]

\* The three users of output_format, each applied to the argument
EvalNormalise ==
    /\ call.fn = "normalise"
    /\ ~call.returned
    /\ call' = [call EXCEPT
          !.returned = TRUE,
          !.converter = dispatched(call.output_format),
          !.supported = { c \in Converters : output_supported(c, call.output_format) },
          !.output_path = get_output_path(SomeInput, call.output_format,
                                          << "/", "out" >>)]
    /\ UNCHANGED << app, ui, display, message_box, workers, events, history >>

NextNormalise == EvalNormalise

SpecNormalise == InitNormalise /\ [][NextNormalise]_vars

\* C12: the dispatcher, the converters' output validation and get_output_path
\* give for a format written in upper case or with a leading dot what they
\* give for the format itself.
C12_SameForEverySpelling ==
    (call.fn = "normalise" /\ call.returned) =>
        /\ call.converter = get_converter_for_format(call.f)
        /\ call.supported = { c \in Converters : call.f \in SUPPORTED_OUTPUT_FORMATS(c) }
        /\ Str(call.output_path) =
              Str(get_output_path(SomeInput, << call.f >>, << "/", "out" >>))

\* ====================================================== converter.convert
\* SUPPORTED_INPUT_FORMATS of the four converters
ImageInputs == { "png", "jpg", "jpeg", "gif", "webp", "tiff", "bmp", "svg" }
VideoInputs == { "mp4", "avi", "mkv", "mov", "webm", "flv", "wmv", "m4v", "3gp" }
DocumentInputs ==
    { "pdf", "docx", "doc", "txt", "rtf", "odt", "xlsx", "xls", "csv", "pptx",
      "ppt" }
AudioInputs == { "mp3", "wav", "flac", "aac", "ogg", "wma", "m4a" }

SUPPORTED_INPUT_FORMATS(c) ==
    CASE c = "image"    -> ImageInputs
      [] c = "video"    -> VideoInputs
      [] c = "document" -> DocumentInputs
      [] c = "audio"    -> AudioInputs
      [] OTHER          -> {}

\* os.path.splitext(input_path)[1][1:].lower()
input_extension_of(input_path) ==
    LET ext == os_path_splitext(input_path)[2]
    IN  IF ext = << >> THEN "" ELSE Str(str_lower(Tail(ext)))

\* str.rstrip("/")
RECURSIVE rstrip_sep(_)
rstrip_sep(s) ==
    IF s # << >> /\ s[Len(s)] = "/" THEN rstrip_sep(SubSeq(s, 1, Len(s) - 1))
    ELSE s

\* os.path.dirname of posixpath
os_path_dirname(p) ==
    LET head == SubSeq(p, 1, rfind(p, "/"))
    IN  IF head # << >> /\ \E k \in 1..Len(head) : head[k] # "/"
        THEN rstrip_sep(head)
        ELSE head

\* The private methods of DocumentConverter that drive LibreOffice
OfficeRoutes == { "_convert_doc_to_pdf", "_convert_ppt_to_pdf" }

\* A route table that sends doc and docx to text only from docx
DocumentRouteDocxOnly(input_extension, output_format) ==
    IF input_extension = "pdf" /\ output_format = "docx" THEN "_convert_pdf_to_docx"
    ELSE IF input_extension = "pdf" /\ output_format = "txt" THEN "_convert_pdf_to_txt"
    ELSE IF input_extension \in {"docx", "doc"} /\ output_format = "pdf"
    THEN "_convert_doc_to_pdf"
    ELSE IF input_extension = "docx" /\ output_format = "txt" THEN "_convert_doc_to_txt"
    ELSE IF input_extension = "txt" /\ output_format = "pdf" THEN "_convert_txt_to_pdf"
    ELSE IF input_extension = "txt" /\ output_format = "docx" THEN "_convert_txt_to_docx"
    ELSE IF input_extension \in {"xlsx", "xls"} /\ output_format = "csv"
    THEN "_convert_excel_to_csv"
    ELSE IF input_extension = "csv" /\ output_format = "xlsx" THEN "_convert_csv_to_excel"
    ELSE IF input_extension \in {"pptx", "ppt"} /\ output_format = "pdf"
    THEN "_convert_ppt_to_pdf"
    ELSE "None"

\* The if/elif chain of DocumentConverter.convert (lines 71-101): the method
\* it calls, "None" for the else branch
DocumentRoute(input_extension, output_format) ==
    IF input_extension = "pdf" /\ output_format = "docx" THEN "_convert_pdf_to_docx"
    ELSE IF input_extension = "pdf" /\ output_format = "txt" THEN "_convert_pdf_to_txt"
    ELSE IF input_extension \in {"docx", "doc"} /\ output_format = "pdf"
    THEN "_convert_doc_to_pdf"
    ELSE IF input_extension \in {"docx", "doc"} /\ output_format = "txt"
    THEN "_convert_doc_to_txt"
    ELSE IF input_extension = "txt" /\ output_format = "pdf" THEN "_convert_txt_to_pdf"
    ELSE IF input_extension = "txt" /\ output_format = "docx" THEN "_convert_txt_to_docx"
    ELSE IF input_extension \in {"xlsx", "xls"} /\ output_format = "csv"
    THEN "_convert_excel_to_csv"
    ELSE IF input_extension = "csv" /\ output_format = "xlsx" THEN "_convert_csv_to_excel"
    ELSE IF input_extension \in {"pptx", "ppt"} /\ output_format = "pdf"
    THEN "_convert_ppt_to_pdf"
    ELSE "None"

\* What a converter does once the overwrite check has passed: the library it
\* drives or, for documents, the route
Delegate(c, input_extension, output_format) ==
    CASE c = "image"    -> "PIL"
      [] c = "video"    -> "moviepy"
      [] c = "audio"    -> "pydub"
      [] c = "document" -> DocumentRoute(input_extension, output_format)

\* A Python None passed where a string is expected
PyNone == << "<None>" >>

\* Arguments of the calls examined
ConvertInputs ==
    { << "/", "in", "/", "a", ".", "png" >>, << "/", "in", "/", "b", ".", "PNG" >>,
      << "/", "in", "/", "noext" >>,
      << "/", "in", "/", "report", ".", "v2", ".", "docx" >>,
      << "/", "in", "/", "c", ".", "doc" >>, << "/", "in", "/", "x", ".", "pdf" >>,
      << "/", "in", "/", "t", ".", "txt" >>, << "/", "in", "/", "e", ".", "xlsx" >>,
      << "/", "in", "/", "e", ".", "xls" >>, << "/", "in", "/", "d", ".", "csv" >>,
      << "/", "in", "/", "p", ".", "pptx" >>, << "/", "in", "/", "p", ".", "ppt" >>,
      << "/", "in", "/", "r", ".", "rtf" >>, << "/", "in", "/", "o", ".", "odt" >>,
      << "/", "in", "/", "m", ".", "mp4" >>, << "/", "in", "/", "s", ".", "mp3" >>,
      << "/", "in", "/", "u", ".", "xyz" >> }

ConvertFormats ==
    { << f >> : f \in DocumentOutputs \cup { "png", "gif", "mp4", "mp3", "xyz", "PDF" } }
    \cup { << ".", "pdf" >>, << ".", "PNG" >>, PyNone }

\* options as the caller passes them: overwrite given or left out
OverwriteOptions == { "True", "False", "absent" }

\* options.get("overwrite", False)
options_get_overwrite(overwrite) == overwrite = "True"

\* The file system: the set of << path, content >> of the files there are
os_path_exists(fs, p) == \E e \in fs : e[1] = Str(p)
written(fs, p, content) == { e \in fs : e[1] # Str(p) } \cup { << Str(p), content >> }
os_rename(fs, from, to) ==
    LET e == CHOOSE x \in fs : x[1] = Str(from)
    IN  written({ x \in fs : x[1] # Str(from) }, to, e[2])

\* A call of convert(input_path, output_format, output_dir, **options) on one
\* of the converters, about to enter its try block, with or without a file
\* already at the place the output goes to
InitConvert ==
    /\ AtRest
    /\ \E c \in Converters, input_path \in ConvertInputs,
          output_format \in ConvertFormats, output_dir \in { << "/", "out" >> },
          overwrite \in OverwriteOptions, taken \in BOOLEAN :
          LET dest == get_output_path(input_path,
                          << Str(replace_dots(str_lower(output_format))) >>,
                          output_dir)
              fs0 == IF taken /\ output_format # PyNone
                     THEN { << Str(dest), "old" >> } ELSE {}
          IN  call = [fn |-> "convert", pc |-> "validate_input", converter |-> c,
                      input_path |-> input_path, output_format |-> output_format,
                      output_dir |-> output_dir, overwrite |-> overwrite,
                      input_extension |-> "unset", fmt |-> "unset",
                      output_path |-> << >>, delegates |-> << >>,
                      raised |-> "no", fs0 |-> fs0, fs |-> fs0,
                      result |-> "pending"]

Returns(value) == [call EXCEPT !.pc = "returned", !.result = value]

\* Validate input format
ConvertValidateInput ==
    /\ call.fn = "convert"
    /\ call.pc = "validate_input"
    /\ LET input_extension == input_extension_of(call.input_path)
       IN  call' = IF input_extension \notin SUPPORTED_INPUT_FORMATS(call.converter)
                   THEN [Returns("False") EXCEPT !.input_extension = input_extension]
                   ELSE [call EXCEPT !.input_extension = input_extension,
                                     !.pc = "validate_output"]
    /\ UNCHANGED << app, ui, display, message_box, workers, events, history >>

\* An output validation that works out the output path before it looks the
\* format up
ConvertValidateOutputAfterPath ==
    /\ call.fn = "convert"
    /\ call.pc = "validate_output"
    /\ IF call.output_format = PyNone
       THEN call' = [call EXCEPT !.pc = "except", !.raised = "AttributeError"]
       ELSE LET output_format == Str(replace_dots(str_lower(call.output_format)))
                path == get_output_path(call.input_path, << output_format >>,
                                        call.output_dir)
            IN  call' = IF output_format \notin SUPPORTED_OUTPUT_FORMATS(call.converter)
                        THEN [Returns("False") EXCEPT !.fmt = output_format,
                                                      !.output_path = path]
                        ELSE [call EXCEPT !.fmt = output_format,
                                          !.pc = "get_output_path"]
    /\ UNCHANGED << app, ui, display, message_box, workers, events, history >>

\* Validate output format; None has no lower()
ConvertValidateOutput ==
    /\ call.fn = "convert"
    /\ call.pc = "validate_output"
    /\ IF call.output_format = PyNone
       THEN call' = [call EXCEPT !.pc = "except", !.raised = "AttributeError"]
       ELSE LET output_format == Str(replace_dots(str_lower(call.output_format)))
            IN  call' = IF output_format \notin SUPPORTED_OUTPUT_FORMATS(call.converter)
                        THEN [Returns("False") EXCEPT !.fmt = output_format]
                        ELSE [call EXCEPT !.fmt = output_format,
                                          !.pc = "get_output_path"]
    /\ UNCHANGED << app, ui, display, message_box, workers, events, history >>

\* Get output path
ConvertOutputPath ==
    /\ call.fn = "convert"
    /\ call.pc = "get_output_path"
    /\ call' = [call EXCEPT
          !.output_path = get_output_path(call.input_path, << call.fmt >>,
                                          call.output_dir),
          !.pc = "exists"]
    /\ UNCHANGED << app, ui, display, message_box, workers, events, history >>

\* An overwrite check that lets the call through when overwrite was left out
ConvertExistsCheckDefaultTrue ==
    /\ call.fn = "convert"
    /\ call.pc = "exists"
    /\ call' = IF os_path_exists(call.fs, call.output_path) /\ call.overwrite = "False"
               THEN Returns("False")
               ELSE [call EXCEPT !.pc = "delegate"]
    /\ UNCHANGED << app, ui, display, message_box, workers, events, history >>

\* Check if output file exists and overwrite is not enabled
ConvertExistsCheck ==
    /\ call.fn = "convert"
    /\ call.pc = "exists"
    /\ call' = IF /\ os_path_exists(call.fs, call.output_path)
                  /\ ~options_get_overwrite(call.overwrite)
               THEN Returns("False")
               ELSE [call EXCEPT !.pc = "delegate"]
    /\ UNCHANGED << app, ui, display, message_box, workers, events, history >>

\* The else branch of DocumentConverter.convert: no route for the pair
ConvertNoRoute ==
    /\ call.fn = "convert"
    /\ call.pc = "delegate"
    /\ Delegate(call.converter, call.input_extension, call.fmt) = "None"
    /\ call' = Returns("False")
    /\ UNCHANGED << app, ui, display, message_box, workers, events, history >>

\* The library (Pillow, moviepy, pydub, pdf2docx, PyPDF2, python-docx,
\* reportlab, pandas) reads the input, writes the output and returns
DelegateReturns ==
    /\ call.fn = "convert"
    /\ call.pc = "delegate"
    /\ LET d == Delegate(call.converter, call.input_extension, call.fmt)
       IN  /\ d \notin OfficeRoutes \cup { "None" }
           /\ call' = [Returns("True") EXCEPT
                 !.delegates = Append(call.delegates, d),
                 !.fs = written(call.fs, call.output_path, "new")]
    /\ UNCHANGED << app, ui, display, message_box, workers, events, history >>

\* The library or Popen raises, before the output is opened or part way
\* through writing it
DelegateRaises ==
    /\ call.fn = "convert"
    /\ call.pc = "delegate"
    /\ LET d == Delegate(call.converter, call.input_extension, call.fmt)
       IN  /\ d # "None"
           /\ \E began \in BOOLEAN :
                 /\ began => d \notin OfficeRoutes
                 /\ call' = [call EXCEPT
                       !.pc = "except",
                       !.raised = "delegate",
                       !.delegates = Append(call.delegates, d),
                       !.fs = IF began
                              THEN written(call.fs, call.output_path, "partial")
                              ELSE call.fs]
    /\ UNCHANGED << app, ui, display, message_box, workers, events, history >>

\* _convert_doc_to_pdf and _convert_ppt_to_pdf once LibreOffice has exited:
\* with or without a PDF left in the output directory
OfficeExits ==
    /\ call.fn = "convert"
    /\ call.pc = "delegate"
    /\ LET d == Delegate(call.converter, call.input_extension, call.fmt)
           libreoffice_output ==
               os_path_join(os_path_dirname(call.output_path),
                            os_path_splitext(os_path_basename(call.input_path))[1]
                                \o << ".", "pdf" >>)
       IN  /\ d \in OfficeRoutes
           /\ \E returncode \in { 0, 1 }, produced \in BOOLEAN :
                 LET fs1 == IF produced
                            THEN written(call.fs, libreoffice_output, "new")
                            ELSE call.fs
                     fs2 == IF /\ Str(libreoffice_output) # Str(call.output_path)
                               /\ os_path_exists(fs1, libreoffice_output)
                            THEN os_rename(fs1, libreoffice_output, call.output_path)
                            ELSE fs1
                 IN  call' = IF returncode # 0
                             THEN [Returns("False") EXCEPT
                                     !.delegates = Append(call.delegates, d),
                                     !.fs = fs1]
                             ELSE [Returns("True") EXCEPT
                                     !.delegates = Append(call.delegates, d),
                                     !.fs = fs2]
    /\ UNCHANGED << app, ui, display, message_box, workers, events, history >>

\* An except clause that logs and raises again
ConvertExceptReraises ==
    /\ call.fn = "convert"
    /\ call.pc = "except"
    /\ call' = Returns("raised")
    /\ UNCHANGED << app, ui, display, message_box, workers, events, history >>

\* except Exception as e: log, return False (of convert, or of the route)
ConvertExcept ==
    /\ call.fn = "convert"
    /\ call.pc = "except"
    /\ call' = Returns("False")
    /\ UNCHANGED << app, ui, display, message_box, workers, events, history >>

NextConvert ==
    \/ ConvertValidateInput
    \/ ConvertValidateOutput
    \/ ConvertOutputPath
    \/ ConvertExistsCheck
    \/ ConvertNoRoute
    \/ DelegateReturns
    \/ DelegateRaises
    \/ OfficeExits
    \/ ConvertExcept

SpecConvert == InitConvert /\ [][NextConvert]_vars

\* A call of convert that has returned to its caller
ConvertReturned == call.fn = "convert" /\ call.pc = "returned"

\* The output path was worked out and there was a file at it when the call
\* began, with overwrite false or left out
Conflict ==
    /\ call.output_path # << >>
    /\ os_path_exists(call.fs0, call.output_path)
    /\ call.overwrite \in { "False", "absent" }

\* C13: on each of the four converters, when the resolved output path already
\* exists and overwrite is false or absent, convert returns false, has invoked
\* no delegate, and the files are what they were.
C13_ConflictRefused ==
    (ConvertReturned /\ Conflict) =>
        /\ call.result = "False"
        /\ call.delegates = << >>
        /\ call.fs = call.fs0

C13_Witness ==
    /\ ConvertReturned /\ Conflict
    /\ call.overwrite = "absent"
    /\ call.converter = "video"
    /\ call.fs = { << "/out/m.gif", "old" >> }

UnsupportedInput ==
    input_extension_of(call.input_path) \notin SUPPORTED_INPUT_FORMATS(call.converter)

UnsupportedOutput ==
    /\ call.output_format # PyNone
    /\ ~output_supported(call.converter, call.output_format)

\* C14: when the input extension or the normalised output format is not
\* supported, convert returns false with no output path computed, no delegate
\* invoked and no file created or modified; an unsupported input is refused
\* before the output format is looked at.
C14_UnsupportedRefused ==
    (ConvertReturned /\ (UnsupportedInput \/ UnsupportedOutput)) =>
        /\ call.result = "False"
        /\ call.output_path = << >>
        /\ call.delegates = << >>
        /\ call.fs = call.fs0
        /\ UnsupportedInput => call.fmt = "unset"

C14_Witness ==
    /\ ConvertReturned
    /\ ~UnsupportedInput /\ UnsupportedOutput
    /\ call.converter = "audio"
    /\ call.fmt = "png"
    /\ call.result = "False"

\* C15: convert always returns a boolean to its caller, and false whenever
\* something raised inside it, the delegate included.
C15_NeverPropagates ==
    ConvertReturned =>
        /\ call.result \in { "True", "False" }
        /\ call.raised # "no" => call.result = "False"

C15_Witness ==
    /\ ConvertReturned
    /\ call.raised = "delegate"
    /\ call.delegates = << "PIL" >>
    /\ call.result = "False"

\* C16: when convert has returned true there is a file at the output path; the
\* LibreOffice routes return true only with the PDF in place.
C16_TrueMeansFileExists ==
    (ConvertReturned /\ call.result = "True") =>
        os_path_exists(call.fs, call.output_path)

\* The pairs of the document converter and the route of each
C20_Routes ==
    { << "pdf", "docx", "_convert_pdf_to_docx" >>,
      << "pdf", "txt", "_convert_pdf_to_txt" >>,
      << "doc", "pdf", "_convert_doc_to_pdf" >>,
      << "docx", "pdf", "_convert_doc_to_pdf" >>,
      << "doc", "txt", "_convert_doc_to_txt" >>,
      << "docx", "txt", "_convert_doc_to_txt" >>,
      << "txt", "pdf", "_convert_txt_to_pdf" >>,
      << "txt", "docx", "_convert_txt_to_docx" >>,
      << "xls", "csv", "_convert_excel_to_csv" >>,
      << "xlsx", "csv", "_convert_excel_to_csv" >>,
      << "csv", "xlsx", "_convert_csv_to_excel" >>,
      << "ppt", "pdf", "_convert_ppt_to_pdf" >>,
      << "pptx", "pdf", "_convert_ppt_to_pdf" >> }

\* C20: once validation and the overwrite check have passed, the document
\* converter invokes the one route of the pair when the pair is one of the
\* nine listed, and otherwise returns false having invoked nothing.
C20_DocumentRoutes ==
    (ConvertReturned /\ call.converter = "document"
        /\ call.output_path # << >> /\ ~Conflict) =>
        IF \E r \in C20_Routes : r[1] = call.input_extension /\ r[2] = call.fmt
        THEN \E r \in C20_Routes :
                /\ r[1] = call.input_extension /\ r[2] = call.fmt
                /\ call.delegates = << r[3] >>
        ELSE call.delegates = << >> /\ call.result = "False"

C20_Witness ==
    /\ ConvertReturned /\ call.converter = "document"
    /\ call.input_extension = "doc" /\ call.fmt = "txt"
    /\ call.delegates = << "_convert_doc_to_txt" >>
    /\ call.result = "True"

C20_WitnessNoRoute ==
    /\ ConvertReturned /\ call.converter = "document"
    /\ call.input_extension = "rtf" /\ call.fmt = "pdf"
    /\ call.output_path # << >> /\ ~Conflict
    /\ call.result = "False"

\* ============================================================ get_file_type
image_extensions ==
    { "png", "jpg", "jpeg", "gif", "webp", "tiff", "bmp", "svg", "raw", "psd" }
video_extensions == { "mp4", "avi", "mkv", "mov", "webm", "flv", "wmv", "m4v", "3gp" }
document_extensions ==
    { "pdf", "docx", "doc", "txt", "rtf", "odt", "xlsx", "xls", "csv", "pptx",
      "ppt", "html", "md", "json", "xml" }
audio_extensions == { "mp3", "wav", "flac", "aac", "ogg", "wma", "m4a" }

\* os.path.splitext(file_path)[1].lower().replace(".", "")
file_extension_of(file_path) ==
    Str(replace_dots(str_lower(os_path_splitext(file_path)[2])))

\* What mimetypes.guess_type can answer, by top-level type: the table it
\* reads is the machine's (mime.types files, the registry), not the program's
MimeGuesses ==
    { "None", "image/", "video/", "application/", "text/", "audio/", "font/" }

\* What is at the path: nothing, a directory, a file that cannot be opened, a
\* file with or without an image header
Entries == { "missing", "directory", "unreadable", "image data", "other data" }

\* imghdr.what(file_path) opens the file and reads its first 32 bytes
imghdr_what(entry) ==
    CASE entry = "directory"  -> "IsADirectoryError"
      [] entry = "unreadable" -> "PermissionError"
      [] entry = "image data" -> "png"
      [] OTHER                -> "None"

\* get_file_type: the category, or the exception that leaves it
get_file_type(file_path, entry, mime_type) ==
    LET file_extension == file_extension_of(file_path)
    IN  IF entry = "missing" THEN "unknown"
        ELSE IF file_extension \in image_extensions \/ mime_type = "image/"
        THEN "image"
        ELSE IF file_extension \in video_extensions \/ mime_type = "video/"
        THEN "video"
        ELSE IF file_extension \in document_extensions
                \/ mime_type \in { "application/", "text/" }
        THEN "document"
        ELSE IF file_extension \in audio_extensions \/ mime_type = "audio/"
        THEN "audio"
        ELSE IF imghdr_what(entry) \in { "IsADirectoryError", "PermissionError" }
        THEN imghdr_what(entry)
        ELSE IF imghdr_what(entry) # "None" THEN "image"
        ELSE "unknown"

TypedPaths ==
    { << "/", "in", "/", "a", ".", "png" >>, << "/", "in", "/", "b", ".", "PNG" >>,
      << "/", "in", "/", "p", ".", "raw" >>, << "/", "in", "/", "m", ".", "mp4" >>,
      << "/", "in", "/", "m", ".", "3gp" >>, << "/", "in", "/", "x", ".", "pdf" >>,
      << "/", "in", "/", "n", ".", "json" >>,
      << "/", "in", "/", "report", ".", "v2", ".", "docx" >>,
      << "/", "in", "/", "s", ".", "ogg" >>, << "/", "in", "/", "s", ".", "mp3" >>,
      << "/", "in", "/", "u", ".", "xyz" >>, << "/", "in", "/", "noext" >>,
      << "/", "in", "/", ".", "hidden" >> }

\* A call of get_file_type; a name without extension has no MIME guess
InitFileType ==
    /\ AtRest
    /\ \E file_path \in TypedPaths, entry \in Entries, mime_type \in MimeGuesses :
          /\ os_path_splitext(file_path)[2] = << >> => mime_type = "None"
          /\ call = [fn |-> "get_file_type", file_path |-> file_path,
                     entry |-> entry, mime_type |-> mime_type,
                     returned |-> FALSE, result |-> "pending"]

EvalFileType ==
    /\ call.fn = "get_file_type"
    /\ ~call.returned
    /\ call' = [call EXCEPT
          !.returned = TRUE,
          !.result = get_file_type(call.file_path, call.entry, call.mime_type)]
    /\ UNCHANGED << app, ui, display, message_box, workers, events, history >>

NextFileType == EvalFileType

SpecFileType == InitFileType /\ [][NextFileType]_vars

FileTypeReturned == call.fn = "get_file_type" /\ call.returned

Categories == { "image", "video", "document", "audio", "unknown" }

\* C18: get_file_type gives one of the five categories for every path and
\* never raises; what cannot be read is unknown.
C18_Total ==
    FileTypeReturned =>
        /\ call.result \in Categories
        /\ call.entry \in { "missing", "unreadable" } => call.result = "unknown"

\* The category of the extension set the extension is in
CategoryOfExtension(e) ==
    CASE e \in image_extensions    -> "image"
      [] e \in video_extensions    -> "video"
      [] e \in document_extensions -> "document"
      [] e \in audio_extensions    -> "audio"
      [] OTHER                     -> "none"

\* C19: the four extension sets are pairwise disjoint, and an existing file
\* whose extension is in one of them gets that set's category whatever the
\* MIME guess.
C19_ExtensionFirst ==
    /\ \A x, y \in { image_extensions, video_extensions, document_extensions,
                     audio_extensions } : x # y => x \cap y = {}
    /\ (FileTypeReturned /\ call.entry \notin { "missing", "directory" }
           /\ CategoryOfExtension(file_extension_of(call.file_path)) # "none") =>
          call.result = CategoryOfExtension(file_extension_of(call.file_path))

\* ===================================================== the batch's numbers
\* The progress signals waiting for the UI thread
ProgressSignals == { k \in 1..Len(events) : events[k].sig = "progress_update" }

\* A worker emits a progress signal in this step
Emits(w) ==
    /\ Len(events') = Len(events) + 1
    /\ events'[Len(events')].sig = "progress_update"
    /\ events'[Len(events')].worker = w

\* Every value a worker emits is at least the value it emitted before: the
\* value of the same index for an error, of the index before for the next file
C23_Monotone ==
    [][\A w \in Workers :
          Emits(w) =>
             LET me == workers[w]
                 v  == events'[Len(events')].value
             IN  /\ v = PercentTable[me.i, me.total_files]
                 /\ me.i > 0 => PercentTable[me.i - 1, me.total_files] <= v]_vars

\* C23: the percentages a worker emits never decrease and every one of them
\* is in 0..99.
C23_ProgressInRange ==
    \A k \in ProgressSignals : events[k].value \in 0..99

\* C24: while a batch runs and in its summary, 0 <= succeeded <= total and
\* the files attempted are at most total, total being the count of the final
\* message.
C24_CountsWithinTotal ==
    /\ \A w \in Workers :
          workers[w].pc \in { "loop", "convert", "except", "done" } =>
             /\ 0 <= workers[w].success_count
             /\ workers[w].success_count <= workers[w].total_files
             /\ Len(attempted[w]) <= workers[w].total_files
    /\ \A k \in 1..Len(events) :
          events[k].sig = "conversion_complete" =>
             /\ 0 <= events[k].message.k
             /\ events[k].message.k <= events[k].message.n

\* C25: the Convert button is enabled only with a file listed and an output
\* directory chosen.
C25_ConvertNeedsFilesAndDirectory ==
    convert_btn => (Len(input_files) > 0 /\ output_directory # "")

\* C27: every output format of the document converter has a supported input
\* with a route to it, and every supported input has a supported output it is
\* routed to; stated of the format and the input a call is made with.
C27_EveryFormatRouted ==
    (call.fn = "convert" /\ call.converter = "document") =>
        /\ \A f \in DocumentOutputs :
              output_supported("document", call.output_format) /\ call.fmt = f =>
                 \E e \in DocumentInputs : DocumentRoute(e, f) # "None"
        /\ \A e \in DocumentInputs :
              call.input_extension = e =>
                 \E f \in DocumentOutputs : DocumentRoute(e, f) # "None"

\* ======================================================= the quality option
\* options.get("quality"): the option as given, "absent" when left out
Qualities == { "absent", "high", "medium", "low", "best" }

\* ImageConverter.convert: quality
image_quality(quality) ==
    IF quality = "medium" THEN 75 ELSE IF quality = "low" THEN 50 ELSE 95

\* ImageConverter.convert: format and the keyword arguments of img.save
save_options(output_format, quality) ==
    IF output_format = "png"
    THEN [format |-> upper(output_format), optimize |-> TRUE]
    ELSE IF output_format = "gif" THEN [format |-> upper(output_format)]
    ELSE IF output_format = "webp"
    THEN [format |-> upper(output_format), quality |-> image_quality(quality),
          method |-> 6]
    ELSE [format |-> upper(output_format), quality |-> image_quality(quality)]

\* AudioConverter.convert: bitrate, in k
audio_bitrate(quality) ==
    IF quality = "medium" THEN 192 ELSE IF quality = "low" THEN 128 ELSE 320

\* AudioConverter.convert: export_params
export_params(output_format, quality) ==
    IF output_format = "mp3"
    THEN [format |-> "mp3", bitrate |-> audio_bitrate(quality),
          tags |-> "Universal File Converter"]
    ELSE IF output_format \in { "wav", "flac" }
    THEN [format |-> output_format, sample_width |-> 2, frame_rate |-> 44100]
    ELSE IF output_format \in { "aac", "m4a" }
    THEN [format |-> IF output_format = "aac" THEN "adts" ELSE "mp4",
          bitrate |-> audio_bitrate(quality)]
    ELSE IF output_format = "ogg"
    THEN [format |-> "ogg", bitrate |-> audio_bitrate(quality)]
    ELSE [format |-> "none"]

\* VideoConverter.convert: bitrate, in k
video_bitrate(quality) ==
    IF quality = "medium" THEN 4000 ELSE IF quality = "low" THEN 1500 ELSE 8000

\* VideoConverter.convert: preset
video_preset(quality) == IF quality = "high" THEN "slow" ELSE "medium"

\* VideoConverter.convert: the arguments of write_gif or write_videofile
write_params(output_format, quality) ==
    IF output_format = "gif" THEN [fps |-> 15]
    ELSE [codec |-> IF output_format = "mp4" THEN "libx264" ELSE "None",
          audio_codec |-> IF output_format = "mp4" THEN "aac" ELSE "libmp3lame",
          bitrate |-> video_bitrate(quality),
          preset |-> video_preset(quality),
          threads |-> 4]

\* What the delegate is handed besides the paths
DelegateParams(c, output_format, quality) ==
    CASE c = "image" -> save_options(output_format, quality)
      [] c = "audio" -> export_params(output_format, quality)
      [] c = "video" -> write_params(output_format, quality)

\* A call of convert of the image, audio or video converter that reaches its
\* delegate, with the quality option it is given
InitQuality ==
    /\ AtRest
    /\ \E c \in { "image", "audio", "video" }, quality \in Qualities :
          \E f \in SUPPORTED_OUTPUT_FORMATS(c) :
             call = [fn |-> "quality", converter |-> c, output_format |-> f,
                     quality |-> quality, handed |-> FALSE,
                     params |-> [format |-> "none"]]

EvalQuality ==
    /\ call.fn = "quality"
    /\ ~call.handed
    /\ call' = [call EXCEPT
          !.handed = TRUE,
          !.params = DelegateParams(call.converter, call.output_format,
                                    call.quality)]
    /\ UNCHANGED << app, ui, display, message_box, workers, events, history >>

NextQuality == EvalQuality

SpecQuality == InitQuality /\ [][NextQuality]_vars

\* C22: without a quality option the delegate is handed what it is handed
\* with quality high, and medium and low select strictly smaller values.
C22_DefaultIsHigh ==
    (call.fn = "quality" /\ call.handed) =>
        /\ call.quality = "absent" =>
              call.params = DelegateParams(call.converter, call.output_format, "high")
        /\ image_quality("low") < image_quality("medium")
        /\ image_quality("medium") < image_quality("high")
        /\ audio_bitrate("low") < audio_bitrate("medium")
        /\ audio_bitrate("medium") < audio_bitrate("high")
        /\ video_bitrate("low") < video_bitrate("medium")
        /\ video_bitrate("medium") < video_bitrate("high")

\* ================================================ two files in one batch
\* The files of the batches examined, and the directories the output goes to
BatchInputs ==
    { << "/", "in", "/", "a", ".", "png" >>, << "/", "in", "/", "a", ".", "jpg" >>,
      << "/", "in", "/", "b", ".", "png" >>, << "/", "in", "/", "a", ".", "doc" >>,
      << "/", "in", "/", "a", ".", "docx" >>, << "/", "in", "/", "a", ".", "mp3" >>,
      << "/", "in", "/", "a", ".", "wav" >> }

BatchFormats == { "png", "gif", "pdf", "txt", "docx", "mp3" }

BatchDirs == { << "/", "out" >>, << "/", "in" >> }

\* ConversionWorker.run on a list of two files that exist: the first call of
\* converter.convert, with the converter, format, directory and overwrite
\* option start_conversion passes to every call of the batch
InitBatch ==
    /\ AtRest
    /\ \E first \in BatchInputs, second \in BatchInputs, f \in BatchFormats,
          output_dir \in BatchDirs, overwrite \in { "True", "False" } :
          LET files == { << Str(first), "input" >>, << Str(second), "input" >> }
          IN  /\ first # second
              /\ call = [fn |-> "convert", pc |-> "validate_input",
                         converter |-> get_converter_for_format(f),
                         input_path |-> first, output_format |-> << f >>,
                         output_dir |-> output_dir, overwrite |-> overwrite,
                         input_extension |-> "unset", fmt |-> "unset",
                         output_path |-> << >>, delegates |-> << >>,
                         raised |-> "no", fs0 |-> files, fs |-> files,
                         result |-> "pending", rest |-> << second >>,
                         done |-> << >>, fs_start |-> files]

\* The loop of run takes the next file: convert is called again with the same
\* converter, format, directory and options, on the files as they now are
BatchNextFile ==
    /\ call.fn = "convert"
    /\ call.pc = "returned"
    /\ call.rest # << >>
    /\ call' = [call EXCEPT
          !.pc = "validate_input",
          !.input_path = Head(call.rest),
          !.rest = Tail(call.rest),
          !.input_extension = "unset",
          !.fmt = "unset",
          !.output_path = << >>,
          !.delegates = << >>,
          !.raised = "no",
          !.fs0 = call.fs,
          !.result = "pending",
          !.done = Append(call.done,
                     [input_path |-> call.input_path,
                      output_path |-> call.output_path,
                      result |-> call.result,
                      delegates |-> call.delegates])]
    /\ UNCHANGED << app, ui, display, message_box, workers, events, history >>

NextBatch ==
    \/ NextConvert
    \/ BatchNextFile

SpecBatch == InitBatch /\ [][NextBatch]_vars

\* Both calls of a two-file batch have returned
BatchDone == ConvertReturned /\ call.rest = << >> /\ Len(call.done) = 1

\* The two files have one name up to the extension, and both differ in it
SameBaseName ==
    LET one == os_path_splitext(call.done[1].input_path)
        two == os_path_splitext(call.input_path)
    IN  one[1] = two[1] /\ one[2] # two[2]

\* Both calls got as far as an output path
BothResolved == call.done[1].output_path # << >> /\ call.output_path # << >>

\* C21: two files of a batch with one base name resolve to one output path;
\* with nothing there at the start and overwrite false the second is refused
\* as a conflict after the first succeeded, so at most one succeeds; with
\* overwrite true the later one writes over the earlier one's output.
C21_CollisionNotDisambiguated ==
    (BatchDone /\ SameBaseName /\ BothResolved) =>
        /\ Str(call.done[1].output_path) = Str(call.output_path)
        /\ (/\ call.overwrite = "False"
            /\ ~os_path_exists(call.fs_start, call.output_path)) =>
              /\ call.done[1].result = "True" =>
                    (call.result = "False" /\ call.delegates = << >> /\ Conflict)
              /\ ~(call.done[1].result = "True" /\ call.result = "True")
        /\ (/\ call.overwrite = "True"
            /\ call.done[1].result = "True" /\ call.result = "True") =>
              /\ call.delegates # << >>
              /\ os_path_exists(call.fs0, call.output_path)

\* C26: whatever the converter, the paths, the format and the options, the
\* destination handed to the delegate is not the input path.
C26_NeverOntoTheInput ==
    (call.fn = "convert" /\ call.delegates # << >>) =>
        Str(call.output_path) # Str(call.input_path)

====
